---- MODULE Spec2Model ----
(***************************************************************************)
(* Model of the document-processing MCP tool of metis-mcp-demo             *)
(* (src/tools/document-processing-tool.js): the chunk_document,            *)
(* extract_code and analyze_document_structure handlers.                   *)
(*                                                                         *)
(* A JavaScript string is a sequence of character codes, so that           *)
(* toLowerCase, trim and the character classes of the regular expressions  *)
(* are computed on characters.  A request is placed by the caller, handled *)
(* by the tool's handler, and its response is then taken by the caller.    *)
(*                                                                         *)
(* The other servers of the repository, each a process of its own, are     *)
(* modelled with their module-level state and with calls of several        *)
(* callers in flight: the database tool (src/tools/database-tool.js), the  *)
(* vector store tool and the LLM interaction tool (both in                 *)
(* src/tools/vector-store-tool.js).  A handler runs without interruption   *)
(* up to an await and is resumed later, other handlers running in between. *)
(***************************************************************************)
EXTENDS Integers, Sequences, FiniteSets, TLC

VARIABLES
  pc, req, outcome, splitterArgs,  \* one invocation of a document tool
  calls,                           \* the invocations in flight, by caller
  pool,                            \* database-tool.js: let pool
  client, collection,              \* vector-store-tool.js: let client, collection
  models,                          \* llm-interaction-tool: const models
  history                          \* what the calls so far did (for the properties)

vars == <<pc, req, outcome, splitterArgs, calls, pool, client, collection, models, history>>

\* the invocation of the sequential model of the document tool
docVars == <<pc, req, outcome, splitterArgs>>
\* the state of the servers with calls in flight
serverVars == <<calls, pool, client, collection, models, history>>

(***************************************************************************)
(* Bounds of the model.                                                    *)
(***************************************************************************)
MaxChunkTextLen == 4
MaxCodeTokens == 6
MaxDocLen == 7
MaxListLen == 4
\* the ChromaClient objects init_vector_store may construct in one run
MaxClients == 2

(***************************************************************************)
(* Characters.                                                             *)
(***************************************************************************)
TAB == 9
NL == 10
SPACE == 32
HASH == 35
BACKTICK == 96

\* "unknown" (document-processing-tool.js line 156)
UNKNOWN == <<117, 110, 107, 110, 111, 119, 110>>
\* String(undefined), what RegExp.prototype.exec scans when text is missing
UNDEFINED_STR == <<117, 110, 100, 101, 102, 105, 110, 101, 100>>

\* \s of a regular expression and the characters String.prototype.trim strips
WhiteSpaceChars ==
  {9, 10, 11, 12, 13, 32, 160, 5760, 8232, 8233, 8239, 8287, 12288, 65279} \cup (8192..8202)
IsSpace(c) == c \in WhiteSpaceChars

Min(a, b) == IF a < b THEN a ELSE b
Max(a, b) == IF a > b THEN a ELSE b

\* s.slice(a, b) with 0 <= a, b: the characters at zero-based offsets a .. b-1
Slice(s, a, b) == IF b <= a THEN <<>> ELSE SubSeq(s, a + 1, Min(b, Len(s)))

\* whether pat occurs in s at zero-based offset i
OccursAt(s, pat, i) ==
  /\ i >= 0
  /\ i + Len(pat) <= Len(s)
  /\ \A k \in 1..Len(pat) : s[i + k] = pat[k]

\* s.includes(pat)
Includes(s, pat) == \E i \in 0..Len(s) : OccursAt(s, pat, i)

\* String.prototype.toLowerCase on one character, then on a string
LowerChar(c) == IF c >= 65 /\ c <= 90 THEN c + 32 ELSE c
ToLowerCase(s) == [i \in 1..Len(s) |-> LowerChar(s[i])]

\* String.prototype.trim
Trim(s) ==
  LET keep == {i \in 1..Len(s) : ~IsSpace(s[i])}
  IN IF keep = {} THEN <<>>
     ELSE LET lo == CHOOSE i \in keep : \A j \in keep : i <= j
              hi == CHOOSE i \in keep : \A j \in keep : i >= j
          IN SubSeq(s, lo, hi)

RECURSIVE Concat(_)
\* arr.join("")
Concat(ss) == IF ss = <<>> THEN <<>> ELSE Head(ss) \o Concat(Tail(ss))

\* the strings over alphabet of length at most n
RECURSIVE StringsUpTo(_, _)
StringsUpTo(alphabet, n) ==
  IF n = 0 THEN {<<>>}
  ELSE LET shorter == StringsUpTo(alphabet, n - 1)
       IN shorter \cup {Append(s, c) : s \in {t \in shorter : Len(t) = n - 1}, c \in alphabet}

(***************************************************************************)
(* JavaScript values of a metadata mapping: a number, or an object, which  *)
(* is a function from its keys.                                            *)
(***************************************************************************)
Num(n) == [t |-> "number", n |-> n]
Obj(f) == [t |-> "object", o |-> f]
EmptyObj == [k \in {} |-> Num(0)]

\* { ...a, ...b }
Spread(a, b) ==
  [k \in (DOMAIN a) \cup (DOMAIN b) |-> IF k \in DOMAIN b THEN b[k] ELSE a[k]]

\* an optional parameter: present with a value, or left out (undefined)
Some(v) == [has |-> TRUE, v |-> v]
None(dflt) == [has |-> FALSE, v |-> dflt]
NoText == None(<<>>)
NoNumber == None(0)
NoMetadata == None(EmptyObj)

(***************************************************************************)
(* What a handler body does: it returns a value or throws an Error.        *)
(***************************************************************************)
Return(v) == [kind |-> "return", value |-> v]
Throw(msg) == [kind |-> "throw", value |-> [t |-> "Error", message |-> msg]]

(***************************************************************************)
(* RecursiveCharacterTextSplitter of langchain/text_splitter (the          *)
(* dependency "langchain": "^0.1.0"), which chunk_document constructs and  *)
(* calls.  chunkSize and chunkOverlap are the constructor's fields;        *)
(* separators are "\n\n", "\n", " ", "" and keepSeparator is true, the     *)
(* class's defaults, which the handler does not override.                  *)
(***************************************************************************)
SEPARATORS == << <<NL, NL>>, <<NL>>, <<SPACE>>, <<>> >>

MSG_OVERLAP == "Cannot have chunkOverlap >= chunkSize"
MSG_UNDEF_LENGTH == "Cannot read properties of undefined (reading 'length')"
MSG_UNDEF_INCLUDES == "Cannot read properties of undefined (reading 'includes')"

\* a constructor that accepts every chunkSize and chunkOverlap
SplitterConstructorAccepts(chunkSize, chunkOverlap) == FALSE

\* new RecursiveCharacterTextSplitter({chunkSize, chunkOverlap}): the
\* TextSplitter constructor rejects chunkOverlap >= chunkSize
SplitterConstructorThrows(chunkSize, chunkOverlap) == chunkOverlap >= chunkSize

RECURSIVE PiecesFrom(_, _, _)
PiecesFrom(text, cuts, from) ==
  LET later == {q \in cuts : q > from}
  IN IF later = {} THEN << Slice(text, from, Len(text)) >>
     ELSE LET q == CHOOSE c \in later : \A d \in later : c <= d
          IN << Slice(text, from, q) >> \o PiecesFrom(text, cuts, q)

\* splitOnSeparator with keepSeparator: text.split(/(?=separator)/), or
\* text.split("") for the empty separator, without the empty pieces
SplitOnSeparator(text, separator) ==
  IF text = <<>> THEN <<>>
  ELSE IF separator = <<>> THEN [i \in 1..Len(text) |-> <<text[i]>>]
  ELSE PiecesFrom(text, {q \in 1..(Len(text) - 1) : OccursAt(text, separator, q)}, 0)

\* joinDocs(docs, ""): the joined text trimmed, null (here: no document) when empty
JoinDocs(docs) == LET t == Trim(Concat(docs)) IN IF t = <<>> THEN <<>> ELSE <<t>>

RECURSIVE PopFront(_, _, _, _, _)
\* the loop of mergeSplits that drops leading splits of currentDoc until at most
\* chunkOverlap characters remain and the next split fits; reading
\* currentDoc[0] of an empty currentDoc throws a TypeError
PopFront(cur, total, len, chunkSize, chunkOverlap) ==
  IF total > chunkOverlap \/ (total + len > chunkSize /\ total > 0)
  THEN IF cur = <<>> THEN [threw |-> TRUE, cur |-> cur, total |-> total]
       ELSE PopFront(Tail(cur), total - Len(Head(cur)), len, chunkSize, chunkOverlap)
  ELSE [threw |-> FALSE, cur |-> cur, total |-> total]

RECURSIVE MergeLoop(_, _, _, _, _, _, _)
MergeLoop(splits, i, docs, cur, total, chunkSize, chunkOverlap) ==
  IF i > Len(splits)
  THEN [threw |-> FALSE, out |-> docs \o JoinDocs(cur)]
  ELSE LET d == splits[i]
           len == Len(d)
       IN IF total + len > chunkSize /\ cur # <<>>
          THEN LET popped == PopFront(cur, total, len, chunkSize, chunkOverlap)
               IN IF popped.threw
                  THEN [threw |-> TRUE, out |-> <<>>]
                  ELSE MergeLoop(splits, i + 1, docs \o JoinDocs(cur),
                                 Append(popped.cur, d), popped.total + len,
                                 chunkSize, chunkOverlap)
          ELSE MergeLoop(splits, i + 1, docs, Append(cur, d), total + len,
                         chunkSize, chunkOverlap)

\* mergeSplits(splits, "") (the separator is "" because keepSeparator is true)
MergeSplits(splits, chunkSize, chunkOverlap) ==
  MergeLoop(splits, 1, <<>>, <<>>, 0, chunkSize, chunkOverlap)

\* the index of the separator _splitText picks: the first that is "" or occurs in text
RECURSIVE PickSeparator(_, _, _)
PickSeparator(text, separators, i) ==
  IF i >= Len(separators) THEN Len(separators)
  ELSE IF separators[i] = <<>> \/ Includes(text, separators[i]) THEN i
  ELSE PickSeparator(text, separators, i + 1)

RECURSIVE SplitTextRec(_, _, _, _)
RECURSIVE SplitLoop(_, _, _, _, _, _, _)
\* the loop of _splitText over the splits: splits shorter than chunkSize are
\* collected and merged, a longer one is split by the remaining separators, or
\* kept whole when none remain
SplitLoop(splits, i, good, final, newSeparators, chunkSize, chunkOverlap) ==
  IF i > Len(splits)
  THEN IF good # <<>>
       THEN LET m == MergeSplits(good, chunkSize, chunkOverlap)
            IN [threw |-> m.threw, out |-> final \o m.out]
       ELSE [threw |-> FALSE, out |-> final]
  ELSE LET s == splits[i]
       IN IF Len(s) < chunkSize
          THEN SplitLoop(splits, i + 1, Append(good, s), final, newSeparators,
                         chunkSize, chunkOverlap)
          ELSE LET m == IF good # <<>> THEN MergeSplits(good, chunkSize, chunkOverlap)
                        ELSE [threw |-> FALSE, out |-> <<>>]
                   other == IF newSeparators = <<>> THEN [threw |-> FALSE, out |-> <<s>>]
                            ELSE SplitTextRec(s, newSeparators, chunkSize, chunkOverlap)
               IN IF m.threw \/ other.threw
                  THEN [threw |-> TRUE, out |-> <<>>]
                  ELSE SplitLoop(splits, i + 1, <<>>, final \o m.out \o other.out,
                                 newSeparators, chunkSize, chunkOverlap)

\* _splitText(text, separators); newSeparators = <<>> stands for undefined
SplitTextRec(text, separators, chunkSize, chunkOverlap) ==
  LET k == PickSeparator(text, separators, 1)
      separator == separators[k]
      newSeparators == IF separator = <<>> THEN <<>>
                       ELSE SubSeq(separators, k + 1, Len(separators))
  IN SplitLoop(SplitOnSeparator(text, separator), 1, <<>>, <<>>, newSeparators,
               chunkSize, chunkOverlap)

\* splitText(text)
SplitText(text, chunkSize, chunkOverlap) ==
  SplitTextRec(text, SEPARATORS, chunkSize, chunkOverlap)

\* text.indexOf(chunk, from)
IndexOf(text, chunk, from) ==
  LET hits == {i \in Max(from, 0)..Len(text) : OccursAt(text, chunk, i)}
  IN IF hits = {} THEN -1 ELSE CHOOSE i \in hits : \A j \in hits : i <= j

\* numberOfNewLines(text, start, end): the "\n" of text.slice(start, end)
NumberOfNewLines(text, start, end) ==
  LET norm(i) == IF i < 0 THEN Max(Len(text) + i, 0) ELSE Min(i, Len(text))
  IN Cardinality({i \in (norm(start) + 1)..norm(end) : text[i] = NL})

\* the loc of a chunk's metadata: the input's loc when that is an object, with
\* lines set to the chunk's line range
LocOf(metadata, from, to) ==
  LET base == IF "loc" \in DOMAIN metadata /\ metadata["loc"].t = "object"
              THEN metadata["loc"].o ELSE EmptyObj
      lines == Obj([k \in {"from", "to"} |-> IF k = "from" THEN Num(from) ELSE Num(to)])
  IN Obj(Spread(base, [k \in {"lines"} |-> lines]))

RECURSIVE DocumentsLoop(_, _, _, _, _, _, _)
DocumentsLoop(text, metadata, chunks, i, line, prevIndex, docs) ==
  IF i > Len(chunks) THEN docs
  ELSE LET chunk == chunks[i]
           indexChunk == IndexOf(text, chunk, prevIndex + 1)
           endPrev == IF i = 1 THEN 0 ELSE prevIndex + Len(chunks[i - 1])
           from == IF i = 1 THEN line + NumberOfNewLines(text, 0, indexChunk)
                   ELSE IF endPrev < indexChunk
                        THEN line + NumberOfNewLines(text, endPrev, indexChunk)
                   ELSE IF endPrev > indexChunk
                        THEN line - NumberOfNewLines(text, indexChunk, endPrev)
                   ELSE line
           to == from + NumberOfNewLines(chunk, 0, Len(chunk))
           doc == [pageContent |-> chunk,
                   metadata |-> Spread(metadata, [k \in {"loc"} |-> LocOf(metadata, from, to)])]
       IN DocumentsLoop(text, metadata, chunks, i + 1, to, indexChunk, Append(docs, doc))

\* createDocuments([text], [metadata]): one Document per chunk of splitText(text)
CreateDocuments(text, metadata, chunkSize, chunkOverlap) ==
  IF ~text.has THEN Throw(MSG_UNDEF_INCLUDES)
  ELSE LET split == SplitText(text.v, chunkSize, chunkOverlap)
       IN IF split.threw THEN Throw(MSG_UNDEF_LENGTH)
          ELSE Return(DocumentsLoop(text.v, metadata, split.out, 1, 1, -1, <<>>))

(***************************************************************************)
(* The handlers' common frame: try { body } catch (error) { return         *)
(* { success: false, error: error.message } }.                             *)
(***************************************************************************)
MSG_NULL_PARAMS == "Cannot read properties of undefined (reading 'text')"
MSG_UNDEF_SPLIT == "Cannot read properties of undefined (reading 'split')"

\* error.message: the message string of an Error object
ErrorMessage(error) ==
  IF error.t = "Error" THEN [t |-> "string", v |-> error.message]
  ELSE [t |-> "undefined", v |-> ""]

\* catch (error) { return { success: false, error: error.message }; }
Catch(error) == Return([success |-> FALSE, error |-> ErrorMessage(error)])

\* a handler without its try/catch: what the body throws leaves the handler
TryCatchMissing(body) == body

TryCatch(body) == IF body.kind = "throw" THEN Catch(body.value) ELSE body

(***************************************************************************)
(* chunk_document (lines 81-129).                                          *)
(***************************************************************************)
DEFAULT_CHUNK_SIZE == 1000
DEFAULT_CHUNK_OVERLAP == 200

\* params.x || dflt for a number: undefined and 0 are falsy
NumberOrDefault(opt, dflt) == IF opt.has /\ opt.v # 0 THEN opt.v ELSE dflt

\* const chunkSize = params.chunkSize || 1000
EffectiveChunkSize(params) == NumberOrDefault(params.chunkSize, DEFAULT_CHUNK_SIZE)
\* const chunkOverlap = params.chunkOverlap || 200
EffectiveChunkOverlap(params) == NumberOrDefault(params.chunkOverlap, DEFAULT_CHUNK_OVERLAP)
\* a handler that ignores params.metadata
EffectiveMetadataIgnored(params) == EmptyObj

\* const metadata = params.metadata || {}  (an object is truthy)
EffectiveMetadata(params) == IF params.metadata.has THEN params.metadata.v ELSE EmptyObj

\* a map that loses the first chunk
ChunksOfSkippingFirst(docs) ==
  [i \in 1..(Len(docs) - 1) |->
     [text |-> docs[i + 1].pageContent, metadata |-> docs[i + 1].metadata]]

\* chunks.map(chunk => ({ text: chunk.pageContent, metadata: chunk.metadata }))
ChunksOf(docs) ==
  [i \in 1..Len(docs) |-> [text |-> docs[i].pageContent, metadata |-> docs[i].metadata]]

\* the body of the handler's try block
ChunkDocumentBody(params) ==
  IF params.isNull THEN Throw(MSG_NULL_PARAMS)
  ELSE LET chunkSize == EffectiveChunkSize(params)
           chunkOverlap == EffectiveChunkOverlap(params)
           metadata == EffectiveMetadata(params)
       IN IF SplitterConstructorThrows(chunkSize, chunkOverlap) THEN Throw(MSG_OVERLAP)
          ELSE LET docs == CreateDocuments(params.text, metadata, chunkSize, chunkOverlap)
               IN IF docs.kind = "throw" THEN docs
                  ELSE Return([success |-> TRUE,
                               chunks |-> ChunksOf(docs.value),
                               count |-> Len(docs.value)])

ChunkDocumentHandler(params) == TryCatch(ChunkDocumentBody(params))

\* what the handler hands to the splitter: the constructor's fields and the
\* metadata of createDocuments; made is FALSE when the handler throws before
NoSplitter == [made |-> FALSE, chunkSize |-> 0, chunkOverlap |-> 0, metadata |-> EmptyObj]

SplitterArgsOf(params) ==
  IF params.isNull THEN NoSplitter
  ELSE [made |-> TRUE,
        chunkSize |-> EffectiveChunkSize(params),
        chunkOverlap |-> EffectiveChunkOverlap(params),
        metadata |-> EffectiveMetadata(params)]

(***************************************************************************)
(* extract_code (lines 132-177).  codeBlockRegex (line 150) is             *)
(*   ```(?:([a-zA-Z0-9]+)\n)?([\s\S]*?)```                                 *)
(*   | (?:^[ \t]*\n)?(?:(?:[ \t]+[^\n]*\n)+)          with flags g and m.  *)
(* Offsets into a text are zero-based, as in JavaScript.                   *)
(***************************************************************************)
FENCE == <<BACKTICK, BACKTICK, BACKTICK>>

\* the character at zero-based offset i
At(text, i) == text[i + 1]

\* the line terminators of ^ and $ under the m flag
IsLineTerminator(c) == c \in {10, 13, 8232, 8233}

\* ^ under the m flag
AtLineStart(text, i) == i = 0 \/ IsLineTerminator(At(text, i - 1))

\* the least offset >= i whose character is not in the class, or the length
RECURSIVE RunEnd(_, _, _)
RunEnd(text, i, class) ==
  IF i < Len(text) /\ At(text, i) \in class THEN RunEnd(text, i + 1, class) ELSE i

AlnumChars == (48..57) \cup (65..90) \cup (97..122)
BlankChars == {SPACE, TAB}

\* the least offset >= from where pat occurs, or -1
FirstOccurrence(text, pat, from) == IndexOf(text, pat, from)

NoMatch == [found |-> FALSE, index |-> 0, end |-> 0, g1 |-> NoText, g2 |-> NoText]

\* the first alternative at offset i: the opening fence, the optional tag line
\* (tried first, given up when no closing fence follows it), the shortest body
\* up to a closing fence
FencedAt(text, i) ==
  IF ~OccursAt(text, FENCE, i) THEN NoMatch
  ELSE LET tagEnd == RunEnd(text, i + 3, AlnumChars)
           tagged == tagEnd > i + 3 /\ tagEnd < Len(text) /\ At(text, tagEnd) = NL
           closeTagged == IF tagged THEN FirstOccurrence(text, FENCE, tagEnd + 1) ELSE -1
           closePlain == FirstOccurrence(text, FENCE, i + 3)
       IN IF closeTagged >= 0
          THEN [found |-> TRUE, index |-> i, end |-> closeTagged + 3,
                g1 |-> Some(Slice(text, i + 3, tagEnd)),
                g2 |-> Some(Slice(text, tagEnd + 1, closeTagged))]
          ELSE IF closePlain >= 0
          THEN [found |-> TRUE, index |-> i, end |-> closePlain + 3,
                g1 |-> NoText,
                g2 |-> Some(Slice(text, i + 3, closePlain))]
          ELSE NoMatch

\* (?:[ \t]+[^\n]*\n)+ from offset j, greedy: the offset after the last line
\* taken, j itself when not even one line matches
RECURSIVE IndentedLinesEnd(_, _)
IndentedLinesEnd(text, j) ==
  IF j < Len(text) /\ At(text, j) \in BlankChars
  THEN LET nl == FirstOccurrence(text, <<NL>>, j + 1)
       IN IF nl >= 0 THEN IndentedLinesEnd(text, nl + 1) ELSE j
  ELSE j

\* the second alternative with (...)* for (...)+: it matches at every offset,
\* with no character when no indented line starts there
IndentedAtOrEmpty(text, i) ==
  [found |-> TRUE, index |-> i, end |-> IndentedLinesEnd(text, i),
   g1 |-> NoText, g2 |-> NoText]

\* the second alternative at offset i: the optional blank line at a line start
\* (tried first, given up when no indented line follows it), then the lines
IndentedAt(text, i) ==
  LET blankEnd == RunEnd(text, i, BlankChars)
      blankLine == AtLineStart(text, i) /\ blankEnd < Len(text) /\ At(text, blankEnd) = NL
      endAfterBlank == IF blankLine THEN IndentedLinesEnd(text, blankEnd + 1) ELSE 0
      endPlain == IndentedLinesEnd(text, i)
  IN IF blankLine /\ endAfterBlank > blankEnd + 1
     THEN [found |-> TRUE, index |-> i, end |-> endAfterBlank, g1 |-> NoText, g2 |-> NoText]
     ELSE IF endPlain > i
     THEN [found |-> TRUE, index |-> i, end |-> endPlain, g1 |-> NoText, g2 |-> NoText]
     ELSE NoMatch

\* the pattern at offset i: the alternatives in their order
CodeBlockMatchAt(text, i) ==
  LET fenced == FencedAt(text, i)
  IN IF fenced.found THEN fenced ELSE IndentedAt(text, i)

\* codeBlockRegex.exec(text) with lastIndex: the match at the least offset
RECURSIVE CodeBlockExec(_, _)
CodeBlockExec(text, lastIndex) ==
  IF lastIndex > Len(text) THEN NoMatch
  ELSE LET m == CodeBlockMatchAt(text, lastIndex)
       IN IF m.found THEN m ELSE CodeBlockExec(text, lastIndex + 1)

\* the matches of the while loop (lines 155-166), in order.  An empty match
\* would leave lastIndex where it is and the loop would not end: the scan then
\* stops with looping set
RECURSIVE CodeBlockMatches(_, _)
CodeBlockMatches(text, lastIndex) ==
  LET m == CodeBlockExec(text, lastIndex)
  IN IF ~m.found THEN [looping |-> FALSE, matches |-> <<>>]
     ELSE IF m.end = m.index THEN [looping |-> TRUE, matches |-> <<m>>]
     ELSE LET rest == CodeBlockMatches(text, m.end)
          IN [looping |-> rest.looping, matches |-> <<m>> \o rest.matches]

\* const blockLanguage = match[1] ? match[1].toLowerCase() : 'unknown'
BlockLanguage(m) == IF m.g1.has /\ m.g1.v # <<>> THEN ToLowerCase(m.g1.v) ELSE UNKNOWN

\* const code = match[2] ? match[2].trim() : match[0].trim()
BlockCode(text, m) ==
  IF m.g2.has /\ m.g2.v # <<>> THEN Trim(m.g2.v) ELSE Trim(Slice(text, m.index, m.end))

\* the block of a match
BlockOf(text, m) == [language |-> BlockLanguage(m), code |-> BlockCode(text, m)]

\* a requested language compared as typed, without toLowerCase
RequestedLanguageAsTyped(params) ==
  IF params.language.has /\ params.language.v # <<>>
  THEN Some(params.language.v) ELSE NoText

\* const language = params.language ? params.language.toLowerCase() : null
\* (undefined and "" are falsy; null is None here)
RequestedLanguage(params) ==
  IF params.language.has /\ params.language.v # <<>>
  THEN Some(ToLowerCase(params.language.v)) ELSE NoText

\* if (!language || blockLanguage === language)
KeepBlock(language, block) == ~language.has \/ block.language = language.v

RECURSIVE SelectBlocks(_, _, _, _)
SelectBlocks(text, matches, i, language) ==
  IF i > Len(matches) THEN <<>>
  ELSE LET block == BlockOf(text, matches[i])
       IN (IF KeepBlock(language, block) THEN <<block>> ELSE <<>>)
          \o SelectBlocks(text, matches, i + 1, language)

\* the text the pattern scans: exec converts a missing text to "undefined"
ScannedText(params) == IF params.text.has THEN params.text.v ELSE UNDEFINED_STR

\* the body of the handler's try block
ExtractCodeBody(params) ==
  IF params.isNull THEN Throw(MSG_NULL_PARAMS)
  ELSE LET text == ScannedText(params)
           language == RequestedLanguage(params)
           codeBlocks == SelectBlocks(text, CodeBlockMatches(text, 0).matches, 1, language)
       IN Return([success |-> TRUE, codeBlocks |-> codeBlocks, count |-> Len(codeBlocks)])

ExtractCodeHandler(params) == TryCatch(ExtractCodeBody(params))

(***************************************************************************)
(* analyze_document_structure (lines 180-237).                             *)
(***************************************************************************)
\* the offset of the end of the line that holds offset i: what .+ or .* reaches
RECURSIVE LineEnd(_, _)
LineEnd(text, i) ==
  IF i < Len(text) /\ ~IsLineTerminator(At(text, i)) THEN LineEnd(text, i + 1) ELSE i

\* \s+(.+) from offset i: \s+ takes the whitespace run and gives characters
\* back until one that . matches is left for .+; the offset where .+ starts,
\* -1 when there is none
RECURSIVE LastDotStart(_, _, _)
LastDotStart(text, lo, k) ==
  IF k < lo THEN -1
  ELSE IF k < Len(text) /\ ~IsLineTerminator(At(text, k)) THEN k
  ELSE LastDotStart(text, lo, k - 1)

SpacesThenText(text, i) == LastDotStart(text, i + 1, RunEnd(text, i, WhiteSpaceChars))

NoHeading == [found |-> FALSE, index |-> 0, end |-> 0, g1 |-> <<>>, g2 |-> <<>>]

\* headingRegex = /^(#{1,6})\s+(.+)$/gm at offset i
HeadingAt(text, i) ==
  LET hashEnd == RunEnd(text, i, {HASH})
      count == hashEnd - i
      start == SpacesThenText(text, hashEnd)
  IN IF AtLineStart(text, i) /\ count >= 1 /\ count <= 6 /\ start >= 0
     THEN [found |-> TRUE, index |-> i, end |-> LineEnd(text, start),
           g1 |-> Slice(text, i, hashEnd), g2 |-> Slice(text, start, LineEnd(text, start))]
     ELSE NoHeading

\* headingRegex.exec(text) with lastIndex
RECURSIVE HeadingExec(_, _)
HeadingExec(text, lastIndex) ==
  IF lastIndex > Len(text) THEN NoHeading
  ELSE LET m == HeadingAt(text, lastIndex)
       IN IF m.found THEN m ELSE HeadingExec(text, lastIndex + 1)

\* the while loop of lines 199-205
RECURSIVE Headings(_, _)
Headings(text, lastIndex) ==
  LET m == HeadingExec(text, lastIndex)
  IN IF ~m.found THEN <<>>
     ELSE << [level |-> Len(m.g1), text |-> Trim(m.g2), position |-> m.index] >>
          \o Headings(text, m.end)

\* the greatest offset u in lo..hi with a "\n" at u, or -1
RECURSIVE LastNewline(_, _, _)
LastNewline(text, lo, u) ==
  IF u < lo THEN -1
  ELSE IF u < Len(text) /\ At(text, u) = NL THEN u
  ELSE LastNewline(text, lo, u - 1)

\* /\n\s*\n/ at offset q: the offset after the match, -1 when it does not match
BlankLinesEnd(text, q) ==
  IF q < Len(text) /\ At(text, q) = NL
  THEN LET u == LastNewline(text, q + 1, RunEnd(text, q + 1, WhiteSpaceChars) - 1)
       IN IF u >= 0 THEN u + 1 ELSE -1
  ELSE -1

\* text.split(/\n\s*\n/): p is the end of the last separator, q the offset tried
RECURSIVE SplitParagraphs(_, _, _)
SplitParagraphs(text, p, q) ==
  IF q >= Len(text) THEN << Slice(text, p, Len(text)) >>
  ELSE LET e == BlankLinesEnd(text, q)
       IN IF e < 0 \/ e = p THEN SplitParagraphs(text, p, q + 1)
          ELSE << Slice(text, p, q) >> \o SplitParagraphs(text, e, e)

\* paragraphs counted without the filter of the empty fragments
ParagraphCountUnfiltered(text) == Len(SplitParagraphs(text, 0, 0))

\* .filter(p => p.trim().length > 0).length
ParagraphCount(text) ==
  LET parts == SplitParagraphs(text, 0, 0)
  IN Cardinality({i \in 1..Len(parts) : Trim(parts[i]) # <<>>})

\* text.split(/\s+/).filter(w => w.length > 0).length: the pieces between the
\* whitespace runs that are not empty
WordCount(text) ==
  Cardinality({i \in 0..(Len(text) - 1) :
                 /\ ~IsSpace(At(text, i))
                 /\ (i = 0 \/ IsSpace(At(text, i - 1)))})

DigitChars == 48..57
BulletChars == {45, 42, 43}
DOT == 46
PIPE == 124

\* bulletListRegex = /^\s*[-*+]\s+.+/gm at offset i: the offset after the
\* match, -1 when it does not match
BulletEnd(text, i) ==
  LET mark == RunEnd(text, i, WhiteSpaceChars)
      start == IF mark < Len(text) /\ At(text, mark) \in BulletChars
               THEN SpacesThenText(text, mark + 1) ELSE -1
  IN IF AtLineStart(text, i) /\ start >= 0 THEN LineEnd(text, start) ELSE -1

\* numberedListRegex = /^\s*\d+\.\s+.+/gm at offset i
NumberedEnd(text, i) ==
  LET digits == RunEnd(text, i, WhiteSpaceChars)
      dot == RunEnd(text, digits, DigitChars)
      start == IF dot > digits /\ dot < Len(text) /\ At(text, dot) = DOT
               THEN SpacesThenText(text, dot + 1) ELSE -1
  IN IF AtLineStart(text, i) /\ start >= 0 THEN LineEnd(text, start) ELSE -1

\* the greatest offset u in lo..hi where $ holds (the end, or a line terminator)
RECURSIVE LastLineEndIn(_, _, _)
LastLineEndIn(text, lo, u) ==
  IF u < lo THEN -1
  ELSE IF u = Len(text) \/ IsLineTerminator(At(text, u)) THEN u
  ELSE LastLineEndIn(text, lo, u - 1)

\* the greatest offset p in lo..hi with a "|" at p after which \s*$ matches;
\* the offset after the match, -1 when there is none
RECURSIVE ClosingPipeEnd(_, _, _)
ClosingPipeEnd(text, lo, p) ==
  IF p < lo THEN -1
  ELSE LET e == IF At(text, p) = PIPE
                THEN LastLineEndIn(text, p + 1, RunEnd(text, p + 1, WhiteSpaceChars))
                ELSE -1
       IN IF e >= 0 THEN e ELSE ClosingPipeEnd(text, lo, p - 1)

\* tableRegex = /^\|(.+)\|\s*$/gm at offset i
TableRowEnd(text, i) ==
  IF AtLineStart(text, i) /\ i < Len(text) /\ At(text, i) = PIPE
  THEN ClosingPipeEnd(text, i + 2, LineEnd(text, i + 1) - 1)
  ELSE -1

\* text.match(regex).length for the three global patterns: kind names the
\* pattern, each match is looked for from the end of the one before
MatchEndAt(kind, text, i) ==
  IF kind = "bullet" THEN BulletEnd(text, i)
  ELSE IF kind = "numbered" THEN NumberedEnd(text, i)
  ELSE TableRowEnd(text, i)

RECURSIVE MatchCount(_, _, _)
MatchCount(kind, text, lastIndex) ==
  IF lastIndex > Len(text) THEN 0
  ELSE LET e == MatchEndAt(kind, text, lastIndex)
       IN IF e > lastIndex THEN 1 + MatchCount(kind, text, e)
          ELSE MatchCount(kind, text, lastIndex + 1)

\* the body of the handler's try block: the heading loop scans String(text),
\* text.split throws on a missing text
AnalyzeBody(params) ==
  IF params.isNull THEN Throw(MSG_NULL_PARAMS)
  ELSE IF ~params.text.has THEN Throw(MSG_UNDEF_SPLIT)
  ELSE LET text == params.text.v
       IN Return([success |-> TRUE,
                  structure |->
                    [headings |-> Headings(text, 0),
                     paragraphCount |-> ParagraphCount(text),
                     bulletListItemCount |-> MatchCount("bullet", text, 0),
                     numberedListItemCount |-> MatchCount("numbered", text, 0),
                     tableRowCount |-> MatchCount("table", text, 0),
                     totalLength |-> Len(text),
                     wordCount |-> WordCount(text)]])

AnalyzeHandler(params) == TryCatch(AnalyzeBody(params))

(***************************************************************************)
(* Requests.                                                               *)
(***************************************************************************)
NullParams ==
  [isNull |-> TRUE, text |-> NoText, chunkSize |-> NoNumber, chunkOverlap |-> NoNumber,
   metadata |-> NoMetadata, language |-> NoText]

ChunkTexts == StringsUpTo({97, SPACE, NL}, MaxChunkTextLen)
ChunkSizes == {-1, 0, 1, 2, 3}
ChunkOverlaps == {-2, 0, 1, 2}
Metadatas ==
  { EmptyObj,
    [k \in {"source"} |-> Num(1)],
    [k \in {"source", "loc"} |-> IF k = "source" THEN Num(1) ELSE Num(7)],
    [k \in {"loc"} |-> Obj([j \in {"page"} |-> Num(3)])] }

ChunkParams ==
  {NullParams} \cup
  { [isNull |-> FALSE, text |-> t, chunkSize |-> cs, chunkOverlap |-> co,
     metadata |-> md, language |-> NoText] :
      t \in {NoText} \cup {Some(x) : x \in ChunkTexts},
      cs \in {NoNumber} \cup {Some(n) : n \in ChunkSizes},
      co \in {NoNumber} \cup {Some(n) : n \in ChunkOverlaps},
      md \in {NoMetadata} \cup {Some(m) : m \in Metadatas} }

\* the texts of extract_code requests: up to MaxCodeTokens of a fence, a
\* letter, a space and a line break
CodeTokens == {FENCE, <<74>>, <<SPACE>>, <<NL>>}
CodeTexts == {Concat(ts) : ts \in StringsUpTo(CodeTokens, MaxCodeTokens)}
Languages == {<<>>, <<106>>, <<74>>, UNKNOWN}

ExtractParams ==
  {NullParams} \cup
  { [isNull |-> FALSE, text |-> t, chunkSize |-> NoNumber, chunkOverlap |-> NoNumber,
     metadata |-> NoMetadata, language |-> l] :
      t \in {NoText} \cup {Some(x) : x \in CodeTexts},
      l \in {NoText} \cup {Some(x) : x \in Languages} }

\* "# Title\n\nSome text\n\n## Sub", the document of the heading example
HeadingExampleText ==
  << HASH, SPACE, 84, 105, 116, 108, 101, NL, NL,
     83, 111, 109, 101, SPACE, 116, 101, 120, 116, NL, NL,
     HASH, HASH, SPACE, 83, 117, 98 >>

\* the texts of analyze_document_structure requests: headings and paragraphs,
\* list items and table rows, and the heading example
DocTexts ==
  StringsUpTo({HASH, SPACE, NL, 97}, MaxDocLen)
    \cup StringsUpTo({45, 49, DOT, PIPE, SPACE, NL}, MaxListLen)
    \cup {HeadingExampleText}

AnalyzeParams ==
  {NullParams} \cup
  { [isNull |-> FALSE, text |-> t, chunkSize |-> NoNumber, chunkOverlap |-> NoNumber,
     metadata |-> NoMetadata, language |-> NoText] :
      t \in {NoText} \cup {Some(x) : x \in DocTexts} }

NoRequest == [tool |-> "none", params |-> NullParams]
NoOutcome == [kind |-> "none", value |-> [success |-> FALSE]]

\* the callers that may have calls in flight at once
Callers == {1, 2}

\* a caller with no call in flight
NoCall == [pc |-> "idle"]

\* module-level state before any handler ran: let pool; let client; let
\* collection (all undefined); const models = {}
Undefined == [t |-> "undefined"]
ServersInit ==
  /\ calls = [c \in Callers |-> NoCall]
  /\ pool = Undefined
  /\ client = Undefined
  /\ collection = Undefined
  /\ models = EmptyObj
  /\ history = EmptyObj

Init ==
  /\ pc = "idle"
  /\ req = NoRequest
  /\ outcome = NoOutcome
  /\ splitterArgs = NoSplitter
  /\ ServersInit

\* a caller invokes chunk_document
RequestChunkDocument ==
  /\ pc = "idle"
  /\ \E p \in ChunkParams : req' = [tool |-> "chunk_document", params |-> p]
  /\ pc' = "pending"
  /\ outcome' = NoOutcome
  /\ splitterArgs' = NoSplitter
  /\ UNCHANGED serverVars

\* the chunk_document handler runs
ChunkDocument ==
  /\ pc = "pending"
  /\ req.tool = "chunk_document"
  /\ outcome' = ChunkDocumentHandler(req.params)
  /\ splitterArgs' = SplitterArgsOf(req.params)
  /\ pc' = "done"
  /\ UNCHANGED req
  /\ UNCHANGED serverVars

\* a caller invokes extract_code
RequestExtractCode ==
  /\ pc = "idle"
  /\ \E p \in ExtractParams : req' = [tool |-> "extract_code", params |-> p]
  /\ pc' = "pending"
  /\ outcome' = NoOutcome
  /\ splitterArgs' = NoSplitter
  /\ UNCHANGED serverVars

\* the extract_code handler runs
ExtractCode ==
  /\ pc = "pending"
  /\ req.tool = "extract_code"
  /\ outcome' = ExtractCodeHandler(req.params)
  /\ pc' = "done"
  /\ UNCHANGED <<req, splitterArgs>>
  /\ UNCHANGED serverVars

\* a caller invokes analyze_document_structure
RequestAnalyze ==
  /\ pc = "idle"
  /\ \E p \in AnalyzeParams : req' = [tool |-> "analyze_document_structure", params |-> p]
  /\ pc' = "pending"
  /\ outcome' = NoOutcome
  /\ splitterArgs' = NoSplitter
  /\ UNCHANGED serverVars

\* the analyze_document_structure handler runs
AnalyzeDocumentStructure ==
  /\ pc = "pending"
  /\ req.tool = "analyze_document_structure"
  /\ outcome' = AnalyzeHandler(req.params)
  /\ pc' = "done"
  /\ UNCHANGED <<req, splitterArgs>>
  /\ UNCHANGED serverVars

\* the caller takes the response; nothing of the invocation is kept
Deliver ==
  /\ pc = "done"
  /\ pc' = "idle"
  /\ req' = NoRequest
  /\ outcome' = NoOutcome
  /\ splitterArgs' = NoSplitter
  /\ UNCHANGED serverVars

Next ==
  \/ RequestChunkDocument
  \/ ChunkDocument
  \/ RequestExtractCode
  \/ ExtractCode
  \/ RequestAnalyze
  \/ AnalyzeDocumentStructure
  \/ Deliver

Spec == Init /\ [][Next]_vars

(***************************************************************************)
(* The claims.                                                             *)
(***************************************************************************)
Done(tool) == pc = "done" /\ req.tool = tool
Succeeded == outcome.kind = "return" /\ outcome.value.success
Failed == outcome.kind = "return" /\ ~outcome.value.success
Payload(tool) ==
  IF tool = "chunk_document" THEN {"chunks", "count"}
  ELSE IF tool = "extract_code" THEN {"codeBlocks", "count"}
  ELSE {"structure"}

\* C1: every invocation of chunk_document, extract_code and
\* analyze_document_structure ends by returning {success: true, <payload>} or
\* {success: false, error: <string>}: nothing is thrown across the tool
\* boundary, and the error of a failure is a string.
C1_UniformResult ==
  pc = "done" =>
    /\ outcome.kind = "return"
    /\ \/ /\ outcome.value.success
          /\ DOMAIN outcome.value = {"success"} \cup Payload(req.tool)
       \/ /\ ~outcome.value.success
          /\ DOMAIN outcome.value = {"success", "error"}
          /\ outcome.value.error.t = "string"

\* C1 witness: an error raised inside the splitter while chunk_document merges
\* splits came back as a failure result.
C1_Witness ==
  /\ Done("chunk_document")
  /\ ~req.params.isNull
  /\ Failed
  /\ outcome.value.error.v = MSG_UNDEF_LENGTH

\* C2: chunk_document called with a chunkSize <= 0 returns a failure result and
\* no chunks.
C2_NonPositiveSizeFails ==
  (Done("chunk_document") /\ ~req.params.isNull
     /\ req.params.chunkSize.has /\ req.params.chunkSize.v <= 0)
  => Failed

\* C3: chunk_document whose effective chunkOverlap is >= its effective
\* chunkSize (the values the splitter is constructed with) ends with a failure
\* result and returns no chunks, also when only a chunkSize is supplied.
C3_OverlapNotBelowSizeFails ==
  (Done("chunk_document") /\ splitterArgs.made
     /\ splitterArgs.chunkOverlap >= splitterArgs.chunkSize)
  => /\ Failed
     /\ outcome.value.error.t = "string"
     /\ "chunks" \notin DOMAIN outcome.value

\* C3 witness: only a chunkSize was supplied, the default overlap is not below
\* it, and the call failed.
C3_Witness ==
  /\ Done("chunk_document")
  /\ req.params.chunkSize.has /\ req.params.chunkSize.v > 0
  /\ ~req.params.chunkOverlap.has
  /\ req.params.text.has
  /\ splitterArgs.made
  /\ splitterArgs.chunkOverlap >= splitterArgs.chunkSize
  /\ Failed

\* C4: the splitter receives chunkSize 1000, chunkOverlap 200 and an empty
\* metadata mapping exactly for the parameters the caller leaves out; a supplied
\* chunkSize > 0, a supplied chunkOverlap with 0 <= chunkOverlap < chunkSize and
\* a supplied metadata reach the splitter as supplied.
C4_SuppliedValuesReachSplitter ==
  (Done("chunk_document") /\ ~req.params.isNull) =>
    LET p == req.params
    IN /\ splitterArgs.made
       /\ ~p.chunkSize.has => splitterArgs.chunkSize = 1000
       /\ ~p.chunkOverlap.has => splitterArgs.chunkOverlap = 200
       /\ ~p.metadata.has => splitterArgs.metadata = EmptyObj
       /\ (p.chunkSize.has /\ p.chunkSize.v > 0) => splitterArgs.chunkSize = p.chunkSize.v
       /\ (p.chunkSize.has /\ p.chunkSize.v > 0 /\ p.chunkOverlap.has
             /\ p.chunkOverlap.v >= 0 /\ p.chunkOverlap.v < p.chunkSize.v)
            => splitterArgs.chunkOverlap = p.chunkOverlap.v
       /\ p.metadata.has => splitterArgs.metadata = p.metadata.v

\* the metadata mapping of the call: the supplied one, empty when left out
InputMetadata == IF req.params.metadata.has THEN req.params.metadata.v ELSE EmptyObj
ChunkTextsOf(chunks) == [i \in 1..Len(chunks) |-> chunks[i].text]

RECURSIVE RebuildsFrom(_, _, _, _)
RebuildsFrom(text, chunks, k, pos) ==
  IF k > Len(chunks) THEN pos = Len(text)
  ELSE LET most == IF k = 1 THEN 0
                   ELSE Min(Len(chunks[k]), Min(pos, Len(chunks[k - 1])))
       IN \E o \in 0..most :
            /\ OccursAt(text, chunks[k], pos - o)
            /\ RebuildsFrom(text, chunks, k + 1, pos - o + Len(chunks[k]))

RECURSIVE ExcerptsFrom(_, _, _, _, _)
ExcerptsFrom(text, chunks, k, minStart, covered) ==
  IF k > Len(chunks)
  THEN \A j \in covered..(Len(text) - 1) : IsSpace(At(text, j))
  ELSE \E st \in minStart..Len(text) :
         /\ chunks[k] # <<>>
         /\ OccursAt(text, chunks[k], st)
         /\ \A j \in covered..(st - 1) : IsSpace(At(text, j))
         /\ ExcerptsFrom(text, chunks, k + 1, st, Max(covered, st + Len(chunks[k])))

AllBlocks ==
  LET text == ScannedText(req.params)
      ms == CodeBlockMatches(text, 0).matches
  IN [i \in 1..Len(ms) |-> BlockOf(text, ms[i])]

RECURSIVE BlocksInLanguage(_, _)
BlocksInLanguage(blocks, lang) ==
  IF blocks = <<>> THEN <<>>
  ELSE (IF Head(blocks).language = lang THEN <<Head(blocks)>> ELSE <<>>)
       \o BlocksInLanguage(Tail(blocks), lang)

\* C7 (as claimed): for every supplied language string L the result is the
\* subsequence of all matched blocks whose language equals L lower-cased; with
\* no language it is all matched blocks; count is the number of returned blocks.
C7_FilterForEverySuppliedLanguage ==
  (Done("extract_code") /\ ~req.params.isNull) =>
    /\ Succeeded
    /\ outcome.value.count = Len(outcome.value.codeBlocks)
    /\ outcome.value.codeBlocks =
         IF req.params.language.has
         THEN BlocksInLanguage(AllBlocks, ToLowerCase(req.params.language.v))
         ELSE AllBlocks

\* C7 (amended): for every supplied non-empty language string L the result is
\* the subsequence of all matched blocks whose language equals L lower-cased;
\* with no language, or with the empty string, it is all matched blocks; count
\* is the number of returned blocks.
C7_FilterForNonEmptyLanguage ==
  (Done("extract_code") /\ ~req.params.isNull) =>
    /\ Succeeded
    /\ outcome.value.count = Len(outcome.value.codeBlocks)
    /\ outcome.value.codeBlocks =
         IF req.params.language.has /\ req.params.language.v # <<>>
         THEN BlocksInLanguage(AllBlocks, ToLowerCase(req.params.language.v))
         ELSE AllBlocks

\* C7 witness: an upper-case language selected one of two matched blocks.
C7_Witness ==
  /\ Done("extract_code") /\ Succeeded
  /\ req.params.language.has
  /\ req.params.language.v # ToLowerCase(req.params.language.v)
  /\ Len(AllBlocks) = 2
  /\ Len(outcome.value.codeBlocks) = 1

\* a text that is one fenced block: a fence, an optional tag line, a body
\* without backticks, a fence
IsOneFencedBlock(text) ==
  /\ Len(text) >= 6
  /\ OccursAt(text, FENCE, 0)
  /\ OccursAt(text, FENCE, Len(text) - 3)
  /\ \A j \in 3..(Len(text) - 4) : At(text, j) # BACKTICK

\* the block the claim describes for such a text
FencedBlockClaimed(text) ==
  LET inner == Slice(text, 3, Len(text) - 3)
      tagEnd == RunEnd(inner, 0, AlnumChars)
      tagged == tagEnd > 0 /\ tagEnd < Len(inner) /\ At(inner, tagEnd) = NL
  IN [language |-> IF tagged THEN ToLowerCase(Slice(inner, 0, tagEnd)) ELSE UNKNOWN,
      code |-> Trim(IF tagged THEN Slice(inner, tagEnd + 1, Len(inner)) ELSE inner)]

\* C8: a fenced block yields one CodeBlock whose code is the text between the
\* fences, trimmed, without fence markers or tag, also when that text is empty
\* or whitespace only, and whose language is the tag lower-cased, or "unknown".
C8_FencedBlockCodeIsEnclosedText ==
  (Done("extract_code") /\ ~req.params.isNull /\ req.params.text.has
     /\ ~req.params.language.has /\ IsOneFencedBlock(req.params.text.v))
  => /\ Succeeded
     /\ outcome.value.codeBlocks = << FencedBlockClaimed(req.params.text.v) >>

\* the offset of the first character of the line that holds offset i
RECURSIVE LineStartOf(_, _)
LineStartOf(text, i) == IF AtLineStart(text, i) THEN i ELSE LineStartOf(text, i - 1)

\* the offsets of a match that its trimmed text keeps
KeptOffsets(text, m) ==
  LET solid == {j \in m.index..(m.end - 1) : ~IsSpace(At(text, j))}
  IN {j \in m.index..(m.end - 1) : \E a, b \in solid : a <= j /\ j <= b}

\* C9: an indented (non-fenced) block is returned only from lines that begin,
\* at their first column, with a tab or a space: no part of a line whose first
\* character is another one is returned as an indented block, and every such
\* block has language "unknown".
C9_IndentedBlocksFromIndentedLines ==
  (Done("extract_code") /\ ~req.params.isNull /\ req.params.text.has) =>
    LET text == req.params.text.v
        ms == CodeBlockMatches(text, 0).matches
    IN \A i \in 1..Len(ms) :
         ~ms[i].g2.has =>
           /\ BlockLanguage(ms[i]) = UNKNOWN
           /\ \A j \in KeptOffsets(text, ms[i]) :
                At(text, LineStartOf(text, j)) \in BlankChars

\* the heading the claim describes for the line that starts at offset i, if any
HeadingLineAt(text, i) ==
  LET line == Slice(text, i, LineEnd(text, i))
      hashes == RunEnd(line, 0, {HASH})
  IN IF AtLineStart(text, i) /\ hashes >= 1 /\ hashes <= 6
        /\ Len(line) >= hashes + 2 /\ IsSpace(At(line, hashes))
     THEN << [level |-> hashes, text |-> Trim(Slice(line, hashes, Len(line))),
              position |-> i] >>
     ELSE <<>>

RECURSIVE HeadingLinesFrom(_, _)
HeadingLinesFrom(text, i) ==
  IF i > Len(text) THEN <<>>
  ELSE HeadingLineAt(text, i) \o HeadingLinesFrom(text, i + 1)

\* C10: the headings are, in order, exactly the lines that start with 1 to 6
\* '#' followed by whitespace and heading text: level is the number of '#',
\* text the trimmed remainder of that same line, position the offset of the
\* line's first '#', and positions strictly increase.
C10_HeadingsAreHeadingLines ==
  (Done("analyze_document_structure") /\ Succeeded) =>
    LET hs == outcome.value.structure.headings
    IN /\ hs = HeadingLinesFrom(req.params.text.v, 0)
       /\ \A i \in 1..Len(hs) : hs[i].level \in 1..6
       /\ \A i \in 1..(Len(hs) - 1) : hs[i].position < hs[i + 1].position

\* the headings of the example: "Title" at offset 0 and "Sub" at offset 20
ExampleHeadings ==
  << [level |-> 1, text |-> <<84, 105, 116, 108, 101>>, position |-> 0],
     [level |-> 2, text |-> <<83, 117, 98>>, position |-> 20] >>

\* the fragments of text, non-empty after trimming, between blank-line
\* separators, counted by their first characters: a non-whitespace character
\* that has no non-whitespace character before it, or that follows a run of
\* whitespace holding two or more newlines
FragmentCount(text) ==
  LET solid(i) == ~IsSpace(At(text, i))
      prev(i) == IF \E j \in 0..(i - 1) : solid(j)
                 THEN CHOOSE j \in 0..(i - 1) : solid(j) /\ \A k \in (j + 1)..(i - 1) : ~solid(k)
                 ELSE -1
      newlines(lo, hi) == Cardinality({k \in lo..hi : At(text, k) = NL})
  IN Cardinality({i \in 0..(Len(text) - 1) :
                    /\ solid(i)
                    /\ (prev(i) < 0 \/ newlines(prev(i) + 1, i - 1) >= 2)})

\* C11 (as claimed): the example document yields the headings Title (level 1,
\* offset 0) and Sub (level 2) and a paragraphCount of 2.
C11_ExampleHasTwoParagraphs ==
  (Done("analyze_document_structure") /\ req.params.text = Some(HeadingExampleText)) =>
    /\ Succeeded
    /\ outcome.value.structure.headings = ExampleHeadings
    /\ outcome.value.structure.paragraphCount = 2

\* C11 (amended): the example document yields the headings Title (level 1,
\* offset 0) and Sub (level 2, offset 20) and a paragraphCount of 3, the two
\* heading lines being fragments too; and for every text paragraphCount is the
\* number of fragments, non-empty after trimming, between blank-line separators.
C11_ExampleHasThreeParagraphs ==
  (Done("analyze_document_structure") /\ ~req.params.isNull /\ req.params.text.has) =>
    /\ Succeeded
    /\ outcome.value.structure.paragraphCount = FragmentCount(req.params.text.v)
    /\ req.params.text.v = HeadingExampleText =>
         /\ outcome.value.structure.headings = ExampleHeadings
         /\ outcome.value.structure.paragraphCount = 3

\* C11 witness: the example document has been analysed.
C11_Witness ==
  /\ Done("analyze_document_structure") /\ Succeeded
  /\ req.params.text = Some(HeadingExampleText)
  /\ Len(outcome.value.structure.headings) = 2

\* the matches of the scan of the requested text
ScanOf(params) == CodeBlockMatches(ScannedText(params), 0)

\* C14: the scan loop of extract_code ends on every text: no match is empty,
\* every match starts at or after the end of the one before (left to right,
\* no overlap), and the blocks returned are no more than the text has characters.
C14_ScanAdvances ==
  (req.tool = "extract_code" /\ ~req.params.isNull) =>
    LET scan == ScanOf(req.params)
        ms == scan.matches
    IN /\ ~scan.looping
       /\ \A k \in 1..Len(ms) : ms[k].found /\ ms[k].end > ms[k].index
       /\ \A k \in 1..(Len(ms) - 1) : ms[k].end <= ms[k + 1].index
       /\ (pc = "done" /\ req.params.text.has) =>
            /\ Succeeded
            /\ outcome.value.count <= Len(ms)
            /\ outcome.value.count <= Len(req.params.text.v)

\* C14 witness: a finished call whose scan took three matches, a fenced block
\* among them, one right after the other.
C14_Witness ==
  /\ Done("extract_code") /\ Succeeded
  /\ outcome.value.count = 3
  /\ LET ms == ScanOf(req.params).matches
     IN /\ Len(ms) = 3
        /\ \E k \in 1..3 : ms[k].g2.has
        /\ \E k \in 1..2 : ms[k].end = ms[k + 1].index

(***************************************************************************)
(* The document tool with calls of several callers in flight.  The         *)
(* chunk_document handler awaits splitter.createDocuments (line 112) and   *)
(* is resumed later; extract_code and analyze_document_structure have no   *)
(* await and run from their first line to their return.  The module holds  *)
(* no variable but server: the splitter and the regular expressions are    *)
(* created inside the handlers, one per invocation.                        *)
(***************************************************************************)
InterleavedChunkParams ==
  {NullParams} \cup
  { [isNull |-> FALSE, text |-> t, chunkSize |-> cs, chunkOverlap |-> co,
     metadata |-> md, language |-> NoText] :
      t \in {NoText, Some(<<97, SPACE, 97>>), Some(<<97, NL, 97, 97>>)},
      cs \in {NoNumber, Some(1), Some(2), Some(3)},
      co \in {NoNumber, Some(1), Some(-2)},
      md \in {NoMetadata, Some([k \in {"source"} |-> Num(1)])} }

InterleavedExtractParams ==
  { [isNull |-> FALSE, text |-> Some(t), chunkSize |-> NoNumber, chunkOverlap |-> NoNumber,
     metadata |-> NoMetadata, language |-> l] :
      t \in {FENCE \o <<74, NL>> \o FENCE, <<SPACE, 74, NL>> \o FENCE \o FENCE},
      l \in {NoText, Some(<<74>>)} }

InterleavedAnalyzeParams ==
  { [isNull |-> FALSE, text |-> t, chunkSize |-> NoNumber, chunkOverlap |-> NoNumber,
     metadata |-> NoMetadata, language |-> NoText] :
      t \in {NoText, Some(HeadingExampleText), Some(<<HASH, NL, 97>>)} }

\* a splitter kept in one module-level variable: a call resumed while another
\* call awaits its own splitter finds that one
SplitterOfOtherCall(cs, c) ==
  IF \E d \in Callers \ {c} : cs[d].pc = "awaiting"
  THEN cs[CHOOSE d \in Callers \ {c} : cs[d].pc = "awaiting"].splitter
  ELSE cs[c].splitter

\* const splitter (line 106): the splitter of the invocation itself
SplitterOf(cs, c) == cs[c].splitter

\* a call in flight: what its handler holds in its local constants
CallOf(tool, params, at, splitter, result) ==
  [pc |-> at, tool |-> tool, params |-> params, splitter |-> splitter,
   outcome |-> result, overlapped |-> FALSE]

\* another handler runs while the calls that await are suspended
Overlap(cs, c) ==
  [d \in Callers |->
     IF d # c /\ cs[d].pc = "awaiting" THEN [cs[d] EXCEPT !.overlapped = TRUE] ELSE cs[d]]

\* chunk_document up to its await (lines 99-112): the parameters are read and
\* the splitter is constructed; what is thrown here is caught at once
StartChunkDocument(c) ==
  /\ calls[c].pc = "idle"
  /\ \E p \in InterleavedChunkParams :
       LET early == IF p.isNull THEN Throw(MSG_NULL_PARAMS)
                    ELSE IF SplitterConstructorThrows(EffectiveChunkSize(p),
                                                      EffectiveChunkOverlap(p))
                    THEN Throw(MSG_OVERLAP)
                    ELSE NoOutcome
           call == IF early.kind = "throw"
                   THEN CallOf("chunk_document", p, "done", NoSplitter, TryCatch(early))
                   ELSE CallOf("chunk_document", p, "awaiting", SplitterArgsOf(p), NoOutcome)
       IN calls' = [Overlap(calls, c) EXCEPT ![c] = call]
  /\ UNCHANGED <<docVars, pool, client, collection, models, history>>

\* chunk_document from its await on (lines 112-127): the documents of the
\* invocation's splitter are mapped to the chunks of the response
ResumeChunkDocument(c) ==
  /\ calls[c].pc = "awaiting"
  /\ calls[c].tool = "chunk_document"
  /\ LET p == calls[c].params
         splitter == SplitterOf(calls, c)
         docs == CreateDocuments(p.text, EffectiveMetadata(p),
                                 splitter.chunkSize, splitter.chunkOverlap)
         body == IF docs.kind = "throw" THEN docs
                 ELSE Return([success |-> TRUE,
                              chunks |-> ChunksOf(docs.value),
                              count |-> Len(docs.value)])
     IN calls' = [Overlap(calls, c) EXCEPT ![c].pc = "done", ![c].outcome = TryCatch(body)]
  /\ UNCHANGED <<docVars, pool, client, collection, models, history>>

\* extract_code (lines 143-176), which has no await
RunExtractCode(c) ==
  /\ calls[c].pc = "idle"
  /\ \E p \in InterleavedExtractParams :
       calls' = [Overlap(calls, c) EXCEPT
                   ![c] = CallOf("extract_code", p, "done", NoSplitter, ExtractCodeHandler(p))]
  /\ UNCHANGED <<docVars, pool, client, collection, models, history>>

\* analyze_document_structure (lines 190-236), which has no await
RunAnalyze(c) ==
  /\ calls[c].pc = "idle"
  /\ \E p \in InterleavedAnalyzeParams :
       calls' = [Overlap(calls, c) EXCEPT
                   ![c] = CallOf("analyze_document_structure", p, "done", NoSplitter,
                                AnalyzeHandler(p))]
  /\ UNCHANGED <<docVars, pool, client, collection, models, history>>

\* the caller takes the response of its call
TakeResponse(c) ==
  /\ calls[c].pc = "done"
  /\ calls' = [calls EXCEPT ![c] = NoCall]
  /\ UNCHANGED <<docVars, pool, client, collection, models, history>>

NextInterleaved ==
  \E c \in Callers :
    \/ StartChunkDocument(c)
    \/ ResumeChunkDocument(c)
    \/ RunExtractCode(c)
    \/ RunAnalyze(c)
    \/ TakeResponse(c)

SpecInterleaved == Init /\ [][NextInterleaved]_vars

\* the response of a call that runs with no other call in flight
ResultAlone(tool, params) ==
  IF tool = "chunk_document" THEN ChunkDocumentHandler(params)
  ELSE IF tool = "extract_code" THEN ExtractCodeHandler(params)
  ELSE AnalyzeHandler(params)

\* C12: in every interleaving each finished call of the document tool holds
\* the response it gets when it runs alone, and two finished calls of the same
\* tool with the same parameters hold the same response.
C12_CallsAreIndependent ==
  /\ \A c \in Callers :
       calls[c].pc = "done" =>
         calls[c].outcome = ResultAlone(calls[c].tool, calls[c].params)
  /\ \A c, d \in Callers :
       (/\ calls[c].pc = "done" /\ calls[d].pc = "done"
        /\ calls[c].tool = calls[d].tool /\ calls[c].params = calls[d].params)
         => calls[c].outcome = calls[d].outcome

\* C12 witness: a chunk_document call returned chunks after another caller's
\* handler ran during its await, that caller's chunk_document call, with
\* another chunk size, being still suspended.
C12_Witness ==
  \E c, d \in Callers :
    /\ calls[c].pc = "done" /\ calls[c].tool = "chunk_document"
    /\ calls[c].overlapped
    /\ calls[c].outcome.value.success
    /\ Len(calls[c].outcome.value.chunks) >= 2
    /\ calls[d].pc = "awaiting"
    /\ calls[d].splitter.chunkSize # calls[c].splitter.chunkSize

(***************************************************************************)
(* The LLM interaction tool (src/tools/vector-store-tool.js, lines         *)
(* 242-520).  models (line 259) is a plain object used as the registry: a  *)
(* read models[modelId] finds the object's own entries and, for a name of  *)
(* Object.prototype, the inherited member.  The constructors, invoke and   *)
(* embedDocuments belong to langchain and the providers: they succeed or   *)
(* throw, both being possible for every call.                              *)
(***************************************************************************)
ModelIds == {"gpt4", "constructor"}
Providers == {"openai", "anthropic", "cohere"}
\* isChatModel as the caller passes it: left out, true or false
IsChatModels == {None(FALSE), Some(TRUE), Some(FALSE)}

\* members every object inherits from Object.prototype
ObjectPrototypeKeys ==
  {"constructor", "toString", "toLocaleString", "valueOf", "hasOwnProperty",
   "isPrototypeOf", "propertyIsEnumerable"}

\* the message of the error a library call throws or rejects with
MSG_LIBRARY == <<"(message of the library's error)">>
\* modelInfo.model.invoke when modelInfo has no model
MSG_UNDEF_INVOKE == <<"Cannot read properties of undefined (reading 'invoke')">>
\* embeddingVectors[0].length when there is no vector
MSG_UNDEF_VECTOR == <<"Cannot read properties of undefined (reading 'length')">>
\* `Model '${modelId}' not found`
ModelNotFound(modelId) == <<"Model '", modelId, "' not found">>
\* `Unsupported provider: ${provider}`
UnsupportedProvider(provider) == <<"Unsupported provider: ", provider>>
\* `Model '${modelId}' initialized successfully`
ModelInitialized(modelId) == <<"Model '", modelId, "' initialized successfully">>

\* return { success: false, error: ... }
Failure(message) == [success |-> FALSE, error |-> message]

\* models[modelId]: the own entry, else the member inherited from
\* Object.prototype (a function), else undefined
Get(obj, key) ==
  IF key \in DOMAIN obj THEN [t |-> "object", v |-> obj[key]]
  ELSE IF key \in ObjectPrototypeKeys THEN [t |-> "function"]
  ELSE Undefined

\* models[modelId] = value
Put(obj, key, value) ==
  [k \in DOMAIN obj \cup {key} |-> IF k = key THEN value ELSE obj[k]]

\* !x for what a registry read gives: only undefined is falsy
Falsy(x) == x.t = "undefined"

\* the class constructed for a supported provider (lines 295-326):
\* if (isChatModel), where undefined and false are falsy
ModelClass(provider, isChatModel) ==
  IF provider = "openai"
  THEN (IF isChatModel.has /\ isChatModel.v THEN "ChatOpenAI" ELSE "OpenAI")
  ELSE (IF isChatModel.has /\ isChatModel.v THEN "ChatAnthropic" ELSE "Anthropic")

\* the entry stored at lines 332-337; the model stands for the constructed
\* object, isChatModel is stored as it was passed
ModelInfo(provider, modelName, isChatModel) ==
  [model |-> ModelClass(provider, isChatModel), provider |-> provider,
   modelName |-> modelName, isChatModel |-> isChatModel]

\* the init_llm_model handler (lines 288-349): the registry and the response;
\* built tells whether the model's constructor returned
InitLlmModelHandler(registry, p, built) ==
  IF p.provider \notin {"openai", "anthropic"}
  THEN [models |-> registry, response |-> Failure(UnsupportedProvider(p.provider))]
  ELSE IF ~built
  THEN [models |-> registry, response |-> Failure(MSG_LIBRARY)]
  ELSE [models |-> Put(registry, p.modelId,
                       ModelInfo(p.provider, p.modelName, p.isChatModel)),
        response |-> [success |-> TRUE, message |-> ModelInitialized(p.modelId),
                      modelId |-> p.modelId, provider |-> p.provider,
                      modelName |-> p.modelName]]

\* generate_text up to its await (lines 367-387): the response when the
\* handler returns before, else how the model is invoked
GenerateTextStart(registry, p) ==
  LET modelInfo == Get(registry, p.modelId)
  IN IF Falsy(modelInfo)
     THEN [returned |-> TRUE, response |-> Failure(ModelNotFound(p.modelId))]
     ELSE IF modelInfo.t = "function"
     THEN [returned |-> TRUE, response |-> Failure(MSG_UNDEF_INVOKE)]
     ELSE [returned |-> FALSE, modelInfo |-> modelInfo.v,
           form |-> IF modelInfo.v.isChatModel.has /\ modelInfo.v.isChatModel.v
                    THEN "messages" ELSE "string"]

\* use_prompt_template up to its await (lines 423-444); sequenced tells whether
\* PromptTemplate.fromTemplate and RunnableSequence.from returned, which they
\* do not for a modelInfo without a model
UsePromptTemplateStart(registry, p, sequenced) ==
  LET modelInfo == Get(registry, p.modelId)
  IN IF Falsy(modelInfo)
     THEN [returned |-> TRUE, response |-> Failure(ModelNotFound(p.modelId))]
     ELSE IF modelInfo.t = "function" \/ ~sequenced
     THEN [returned |-> TRUE, response |-> Failure(MSG_LIBRARY)]
     ELSE [returned |-> FALSE, modelInfo |-> modelInfo.v, form |-> "chain"]

\* the response of generate_text and use_prompt_template after the await
\* (lines 384-398, 446-455); answered tells whether the model answered
TextResponse(call, answered) ==
  IF answered
  THEN [success |-> TRUE, text |-> "(text of the model)", modelId |-> call.params.modelId,
        provider |-> call.modelInfo.provider, modelName |-> call.modelInfo.modelName]
  ELSE Failure(MSG_LIBRARY)

\* generate_embeddings up to its await (lines 482-505); built tells whether the
\* embeddings constructor returned
GenerateEmbeddingsStart(p, built) ==
  IF p.provider \notin {"openai", "cohere"}
  THEN [returned |-> TRUE, response |-> Failure(UnsupportedProvider(p.provider))]
  ELSE IF ~built THEN [returned |-> TRUE, response |-> Failure(MSG_LIBRARY)]
  ELSE [returned |-> FALSE]

\* generate_embeddings after the await (lines 505-515): count vectors came, or
\* embedDocuments rejected
EmbeddingsResponse(answered, count) ==
  IF ~answered THEN Failure(MSG_LIBRARY)
  ELSE IF count = 0 THEN Failure(MSG_UNDEF_VECTOR)
  ELSE [success |-> TRUE, embeddings |-> "(vectors)", count |-> count,
        dimensions |-> "(length of the first vector)"]

InitLlmParams ==
  { [modelId |-> id, provider |-> pr, modelName |-> "gpt-4", isChatModel |-> ic] :
      id \in ModelIds, pr \in Providers, ic \in IsChatModels }
TextParams == { [modelId |-> id] : id \in ModelIds }
EmbeddingsParams == { [provider |-> pr] : pr \in Providers }

\* a call of the LLM tool in flight: modelInfo and form are the handler's
\* local modelInfo and the argument form of invoke; invoked tells whether the
\* handler called the model; known and defaulted record whether, when the
\* call started, an init_llm_model call had returned success for its modelId,
\* and whether the last one left isChatModel out
LlmCall(tool, params, start, known, defaulted) ==
  [pc |-> IF start.returned THEN "done" ELSE "awaiting",
   tool |-> tool, params |-> params,
   modelInfo |-> IF start.returned THEN Undefined ELSE start.modelInfo,
   form |-> IF start.returned THEN "none" ELSE start.form,
   invoked |-> ~start.returned,
   known |-> known, defaulted |-> defaulted,
   response |-> IF start.returned THEN start.response ELSE Failure(<<>>)]

InitLlm ==
  /\ pc = "idle" /\ req = NoRequest /\ outcome = NoOutcome /\ splitterArgs = NoSplitter
  /\ calls = [c \in Callers |-> NoCall]
  /\ pool = Undefined /\ client = Undefined /\ collection = Undefined
  /\ models = EmptyObj
  /\ history = [inited |-> {}, defaulted |-> {}]

\* init_llm_model (lines 288-349), which has no await
InitLlmModel(c) ==
  /\ calls[c].pc = "idle"
  /\ \E p \in InitLlmParams, built \in BOOLEAN :
       LET r == InitLlmModelHandler(models, p, built)
       IN /\ models' = r.models
          /\ calls' = [calls EXCEPT ![c] =
               [pc |-> "done", tool |-> "init_llm_model", params |-> p,
                modelInfo |-> Undefined, form |-> "none", invoked |-> FALSE,
                known |-> FALSE, defaulted |-> FALSE, response |-> r.response]]
          /\ history' =
               IF r.response.success
               THEN [inited |-> history.inited \cup {p.modelId},
                     defaulted |-> IF p.isChatModel.has
                                   THEN history.defaulted \ {p.modelId}
                                   ELSE history.defaulted \cup {p.modelId}]
               ELSE history
  /\ UNCHANGED <<docVars, pool, client, collection>>

\* generate_text up to its await
StartGenerateText(c) ==
  /\ calls[c].pc = "idle"
  /\ \E p \in TextParams :
       calls' = [calls EXCEPT ![c] =
                   LlmCall("generate_text", p, GenerateTextStart(models, p),
                           p.modelId \in history.inited, p.modelId \in history.defaulted)]
  /\ UNCHANGED <<docVars, pool, client, collection, models, history>>

\* generate_text from its await on: the model answered or invoke rejected
ResumeGenerateText(c) ==
  /\ calls[c].pc = "awaiting"
  /\ calls[c].tool = "generate_text"
  /\ \E answered \in BOOLEAN :
       calls' = [calls EXCEPT ![c].pc = "done",
                              ![c].response = TextResponse(calls[c], answered)]
  /\ UNCHANGED <<docVars, pool, client, collection, models, history>>

\* use_prompt_template up to its await
StartUsePromptTemplate(c) ==
  /\ calls[c].pc = "idle"
  /\ \E p \in TextParams, sequenced \in BOOLEAN :
       calls' = [calls EXCEPT ![c] =
                   LlmCall("use_prompt_template", p,
                           UsePromptTemplateStart(models, p, sequenced),
                           p.modelId \in history.inited, p.modelId \in history.defaulted)]
  /\ UNCHANGED <<docVars, pool, client, collection, models, history>>

\* use_prompt_template from its await on
ResumeUsePromptTemplate(c) ==
  /\ calls[c].pc = "awaiting"
  /\ calls[c].tool = "use_prompt_template"
  /\ \E answered \in BOOLEAN :
       calls' = [calls EXCEPT ![c].pc = "done",
                              ![c].response = TextResponse(calls[c], answered)]
  /\ UNCHANGED <<docVars, pool, client, collection, models, history>>

\* generate_embeddings up to its await; it reads no modelId and no registry
StartGenerateEmbeddings(c) ==
  /\ calls[c].pc = "idle"
  /\ \E p \in EmbeddingsParams, built \in BOOLEAN :
       LET start == GenerateEmbeddingsStart(p, built)
       IN calls' = [calls EXCEPT ![c] =
                      [pc |-> IF start.returned THEN "done" ELSE "awaiting",
                       tool |-> "generate_embeddings", params |-> p,
                       modelInfo |-> Undefined, form |-> "none", invoked |-> FALSE,
                       known |-> FALSE, defaulted |-> FALSE,
                       response |-> IF start.returned THEN start.response
                                    ELSE Failure(<<>>)]]
  /\ UNCHANGED <<docVars, pool, client, collection, models, history>>

\* generate_embeddings from its await on
ResumeGenerateEmbeddings(c) ==
  /\ calls[c].pc = "awaiting"
  /\ calls[c].tool = "generate_embeddings"
  /\ \E answered \in BOOLEAN, count \in {0, 1} :
       calls' = [calls EXCEPT ![c].pc = "done",
                              ![c].response = EmbeddingsResponse(answered, count)]
  /\ UNCHANGED <<docVars, pool, client, collection, models, history>>

\* the caller takes the response of its call
TakeLlmResponse(c) ==
  /\ calls[c].pc = "done"
  /\ calls' = [calls EXCEPT ![c] = NoCall]
  /\ UNCHANGED <<docVars, pool, client, collection, models, history>>

NextLlm ==
  \E c \in Callers :
    \/ InitLlmModel(c)
    \/ StartGenerateText(c)
    \/ ResumeGenerateText(c)
    \/ StartUsePromptTemplate(c)
    \/ ResumeUsePromptTemplate(c)
    \/ StartGenerateEmbeddings(c)
    \/ ResumeGenerateEmbeddings(c)
    \/ TakeLlmResponse(c)

SpecLlm == InitLlm /\ [][NextLlm]_vars

ChatClasses == {"ChatOpenAI", "ChatAnthropic"}

\* C13: after an init_llm_model call that left isChatModel out, the entry of
\* its modelId holds a chat model (ChatOpenAI or ChatAnthropic) and
\* isChatModel = true, and a generate_text call on that modelId invokes the
\* model with the message list.
C13_OmittedIsChatModelIsChat ==
  /\ \A id \in history.defaulted :
       /\ id \in DOMAIN models
       /\ models[id].model \in ChatClasses
       /\ models[id].isChatModel = Some(TRUE)
  /\ \A c \in Callers :
       (/\ calls[c].pc \in {"awaiting", "done"}
        /\ calls[c].tool = "generate_text"
        /\ calls[c].defaulted /\ calls[c].invoked)
         => calls[c].form = "messages"

\* the registry changes only in a step in which an init_llm_model call returns
\* success, and then in the entry of that call's modelId only
RegistryStep ==
  models' # models =>
    \E c \in Callers :
      /\ calls[c].pc = "idle" /\ calls'[c].pc = "done"
      /\ calls'[c].tool = "init_llm_model"
      /\ calls'[c].response.success
      /\ calls'[c].params.modelId \in DOMAIN models'
      /\ models' = Put(models, calls'[c].params.modelId, models'[calls'[c].params.modelId])

\* a failed init_llm_model call left the registry as it was (the step that
\* shows a failed call changes no entry), and generate_text and
\* use_prompt_template on a modelId without successful init answer not found
\* and invoke no model
NotFoundWithoutInit ==
  \A c \in Callers :
    (/\ calls[c].pc \in {"awaiting", "done"}
     /\ calls[c].tool \in {"generate_text", "use_prompt_template"}
     /\ ~calls[c].known)
      => /\ calls[c].pc = "done"
         /\ ~calls[c].invoked
         /\ calls[c].response = Failure(ModelNotFound(calls[c].params.modelId))

\* C18: the registry is changed only by an init_llm_model call that returns
\* success, in the entry of its modelId only; and generate_text and
\* use_prompt_template on a modelId with no successful init return
\* "Model '<id>' not found" without invoking any model.
C18_RegistryFrame == [][RegistryStep]_vars /\ []NotFoundWithoutInit

(***************************************************************************)
(* The database tool (src/tools/database-tool.js).  pool (line 12) is the  *)
(* module-level connection pool.  Pool, connect and query belong to pg:    *)
(* connect and query are awaited and resolve or reject, both being         *)
(* possible for every call.                                                *)
(***************************************************************************)
DEFAULT_PORT == 5432
DEFAULT_SCHEMA == "public"
MSG_DB_NOT_INITIALIZED == <<"Database connection not initialized">>
MSG_DB_INITIALIZED == <<"Database connection initialized successfully">>
COLUMNS_QUERY == "SELECT column_name, ... FROM information_schema.columns WHERE table_schema = $1 AND table_name = $2 ..."
TABLES_QUERY == "SELECT table_name FROM information_schema.tables WHERE table_schema = $1 ..."

\* params.schema || 'public' for a string: undefined and "" are falsy
StringOrDefault(opt, dflt) == IF opt.has /\ opt.v # "" THEN opt.v ELSE dflt

\* new Pool({host, port: params.port || 5432, database, user, password})
NewPool(p) ==
  [t |-> "object", host |-> p.host, port |-> NumberOrDefault(p.port, DEFAULT_PORT),
   database |-> p.database, user |-> p.user, password |-> p.password]

\* the query a handler sends with pool.query: its text and its values
QueryOf(tool, p) ==
  IF tool = "execute_query"
  THEN [text |-> p.query, values |-> IF p.params.has THEN p.params.v ELSE <<>>]
  ELSE IF tool = "get_table_schema"
  THEN [text |-> COLUMNS_QUERY,
        values |-> <<StringOrDefault(p.schema, DEFAULT_SCHEMA), p.table>>]
  ELSE [text |-> TABLES_QUERY, values |-> <<StringOrDefault(p.schema, DEFAULT_SCHEMA)>>]

\* if (!pool) of the query handlers (lines 75, 101, 140), negated
PoolSet(thePool) == thePool.t # "undefined"

\* the response of a query handler after the await (lines 80, 121, 157)
QueryResponse(tool, answered) ==
  IF ~answered THEN Failure(MSG_LIBRARY)
  ELSE IF tool = "execute_query"
  THEN [success |-> TRUE, data |-> "(rows)", rowCount |-> "(rowCount)"]
  ELSE IF tool = "get_table_schema" THEN [success |-> TRUE, schema |-> "(rows)"]
  ELSE [success |-> TRUE, tables |-> "(table names)"]

InitDbParams ==
  { [host |-> "localhost", port |-> pt, database |-> "metis_db", user |-> "metis_user",
     password |-> "password123"] : pt \in {NoNumber, Some(0), Some(5433)} }
QueryParams ==
  [execute_query |->
     { [query |-> "SELECT * FROM documents LIMIT 10", params |-> ps] :
         ps \in {None(<<>>), Some(<<"1">>)} },
   get_table_schema |->
     { [table |-> "documents", schema |-> sc] : sc \in {None(""), Some(""), Some("metis")} },
   list_tables |->
     { [schema |-> sc] : sc \in {None(""), Some("metis")} }]
QueryTools == DOMAIN QueryParams

\* a call of the database tool in flight: sentTo is the pool the handler sent
\* its query (or its connect) to, query what it sent; initialized records
\* whether an init_database_connection call had returned success when the
\* call started
DbCall(tool, params, at, sentTo, query, initialized, response) ==
  [pc |-> at, tool |-> tool, params |-> params, sentTo |-> sentTo, query |-> query,
   initialized |-> initialized, response |-> response]

InitDb ==
  /\ pc = "idle" /\ req = NoRequest /\ outcome = NoOutcome /\ splitterArgs = NoSplitter
  /\ calls = [c \in Callers |-> NoCall]
  /\ pool = Undefined /\ client = Undefined /\ collection = Undefined
  /\ models = EmptyObj
  /\ history = [initReturnedSuccess |-> FALSE]

\* init_database_connection up to its await (lines 36-47): the new pool is
\* stored, then pool.connect() is called
StartInitDatabaseConnection(c) ==
  /\ calls[c].pc = "idle"
  /\ \E p \in InitDbParams :
       /\ pool' = NewPool(p)
       /\ calls' = [calls EXCEPT ![c] =
            DbCall("init_database_connection", p, "awaiting", NewPool(p), Undefined,
                   history.initReturnedSuccess, Failure(<<>>))]
  /\ UNCHANGED <<docVars, client, collection, models, history>>

\* init_database_connection from its await on (lines 47-53): connected, the
\* client is released and success returned; else the catch returns the error
ResumeInitDatabaseConnection(c) ==
  /\ calls[c].pc = "awaiting"
  /\ calls[c].tool = "init_database_connection"
  /\ \E connected \in BOOLEAN :
       /\ calls' = [calls EXCEPT
            ![c].pc = "done",
            ![c].response = IF connected
                            THEN [success |-> TRUE, message |-> MSG_DB_INITIALIZED]
                            ELSE Failure(MSG_LIBRARY)]
       /\ history' = [initReturnedSuccess |-> history.initReturnedSuccess \/ connected]
  /\ UNCHANGED <<docVars, pool, client, collection, models>>

\* execute_query, get_table_schema and list_tables up to their await (lines
\* 74-79, 100-120, 139-156): without pool the handler returns, else it sends
\* its query to pool
StartQuery(c) ==
  /\ calls[c].pc = "idle"
  /\ \E tool \in QueryTools : \E p \in QueryParams[tool] :
       calls' = [calls EXCEPT ![c] =
         IF PoolSet(pool)
         THEN DbCall(tool, p, "awaiting", pool, QueryOf(tool, p),
                     history.initReturnedSuccess, Failure(<<>>))
         ELSE DbCall(tool, p, "done", Undefined, Undefined,
                     history.initReturnedSuccess, Failure(MSG_DB_NOT_INITIALIZED))]
  /\ UNCHANGED <<docVars, pool, client, collection, models, history>>

\* a query handler from its await on: the rows came or pool.query rejected
ResumeQuery(c) ==
  /\ calls[c].pc = "awaiting"
  /\ calls[c].tool \in QueryTools
  /\ \E answered \in BOOLEAN :
       calls' = [calls EXCEPT ![c].pc = "done",
                              ![c].response = QueryResponse(calls[c].tool, answered)]
  /\ UNCHANGED <<docVars, pool, client, collection, models, history>>

\* the caller takes the response of its call
TakeDbResponse(c) ==
  /\ calls[c].pc = "done"
  /\ calls' = [calls EXCEPT ![c] = NoCall]
  /\ UNCHANGED <<docVars, pool, client, collection, models, history>>

NextDb ==
  \E c \in Callers :
    \/ StartInitDatabaseConnection(c)
    \/ ResumeInitDatabaseConnection(c)
    \/ StartQuery(c)
    \/ ResumeQuery(c)
    \/ TakeDbResponse(c)

SpecDb == InitDb /\ [][NextDb]_vars

\* C15: a query call made before any init_database_connection call returned
\* success returns 'Database connection not initialized' and sends no query
\* to any pool; and the tool holds no pool while no init call has returned
\* success and none is in flight.
C15_NoQueryBeforeInitSuccess ==
  /\ \A c \in Callers :
       (/\ calls[c].pc \in {"awaiting", "done"}
        /\ calls[c].tool \in QueryTools
        /\ ~calls[c].initialized)
         => /\ calls[c].pc = "done"
            /\ calls[c].sentTo = Undefined
            /\ calls[c].response = Failure(MSG_DB_NOT_INITIALIZED)
  /\ (/\ ~history.initReturnedSuccess
      /\ \A c \in Callers : calls[c].pc = "awaiting" =>
                                calls[c].tool # "init_database_connection")
       => pool = Undefined

(***************************************************************************)
(* The vector store tool (src/tools/vector-store-tool.js, lines 1-240).    *)
(* client and collection (lines 12-13) are module-level.  ChromaClient,    *)
(* heartbeat, getOrCreateCollection, add, query and delete belong to       *)
(* chromadb: the awaited ones resolve or reject, both being possible for   *)
(* every call.  Objects are told apart by a serial number, as two clients  *)
(* constructed with the same path are two objects.                         *)
(***************************************************************************)
DEFAULT_CHROMA_PORT == 8000
DEFAULT_N_RESULTS == 10
MSG_VS_NOT_INITIALIZED == <<"Vector store connection not initialized">>
MSG_COLLECTION_NOT_INITIALIZED == <<"Collection not initialized">>
MSG_VS_INITIALIZED == <<"Vector store connection initialized successfully">>
\* `Collection '${params.name}' retrieved or created successfully`
CollectionReady(name) == <<"Collection '", name, "' retrieved or created successfully">>

CollectionNames == {"docs", "notes"}

\* new ChromaClient({path: `http://${params.host}:${params.port || 8000}`});
\* serial tells the objects apart
NewClient(p, serial) ==
  [t |-> "object", serial |-> serial,
   path |-> <<"http://", p.host, ":", NumberOrDefault(p.port, DEFAULT_CHROMA_PORT)>>]

\* the collection object client.getOrCreateCollection resolves to
CollectionFrom(theClient, request) ==
  [t |-> "object", name |-> request.name, client |-> theClient.serial]

\* if (!client), if (!collection), negated
IsSet(x) == x.t # "undefined"

\* what the three document handlers send to the collection (lines 135-139,
\* 184-188, 222-224)
CollectionRequest(tool, p) ==
  IF tool = "add_documents"
  THEN [documents |-> p.documents,
        metadatas |-> IF p.metadatas.has THEN p.metadatas.v
                      ELSE [i \in 1..Len(p.documents) |-> EmptyObj],
        ids |-> p.ids]
  ELSE IF tool = "query_collection"
  THEN [queryTexts |-> p.queryTexts,
        nResults |-> NumberOrDefault(p.nResults, DEFAULT_N_RESULTS)]
  ELSE [ids |-> p.ids]

\* the response of a document handler after its await (lines 141-148,
\* 190-196, 226-233)
CollectionResponse(tool, p, answered) ==
  IF ~answered THEN Failure(MSG_LIBRARY)
  ELSE IF tool = "add_documents"
  THEN [success |-> TRUE, count |-> Len(p.documents)]
  ELSE IF tool = "query_collection" THEN [success |-> TRUE, results |-> "(results)"]
  ELSE [success |-> TRUE, count |-> Len(p.ids)]

InitVsParams == { [host |-> "localhost", port |-> pt] : pt \in {NoNumber, Some(9000)} }
CollectionParams ==
  { [name |-> n, metadata |-> NoMetadata] : n \in CollectionNames }
DocumentParams ==
  [add_documents |->
     { [documents |-> <<"text">>, ids |-> <<"id1">>, metadatas |-> md] :
         md \in {None(<<>>), Some(<<EmptyObj>>)} },
   query_collection |->
     { [queryTexts |-> <<"text">>, nResults |-> n] : n \in {NoNumber, Some(0)} },
   delete_documents |-> { [ids |-> <<"id1">>] }]
DocumentTools == DOMAIN DocumentParams

\* a call of the vector store tool in flight: target is the object the
\* handler called (the client of heartbeat and getOrCreateCollection, the
\* collection of add, query and delete), request what it sent
VsCall(tool, params, at, target, request, response) ==
  [pc |-> at, tool |-> tool, params |-> params, target |-> target, request |-> request,
   response |-> response]

InitVs ==
  /\ pc = "idle" /\ req = NoRequest /\ outcome = NoOutcome /\ splitterArgs = NoSplitter
  /\ calls = [c \in Callers |-> NoCall]
  /\ pool = Undefined /\ client = Undefined /\ collection = Undefined
  /\ models = EmptyObj
  /\ history = [clientsMade |-> 0, initReturnedSuccess |-> FALSE,
                own |-> [c \in Callers |-> ""],
                atStart |-> [c \in Callers |-> Undefined]]

\* the record of a call's start kept for the properties: the stored client
\* when the call started, whether an init_vector_store call had returned
\* success by then, and the collection name of the caller's last successful
\* get_or_create_collection call by then ("" when none)
StartOf(c) ==
  [history EXCEPT !.atStart[c] =
     [t |-> "object", client |-> client, initialized |-> history.initReturnedSuccess,
      own |-> history.own[c]]]

\* init_vector_store up to its await (lines 34-41): the new client is stored,
\* then client.heartbeat() is called
StartInitVectorStore(c) ==
  /\ calls[c].pc = "idle"
  /\ history.clientsMade < MaxClients
  /\ \E p \in InitVsParams :
       LET made == NewClient(p, history.clientsMade + 1)
       IN /\ client' = made
          /\ calls' = [calls EXCEPT ![c] =
               VsCall("init_vector_store", p, "awaiting", made, "heartbeat", Failure(<<>>))]
  /\ history' = [StartOf(c) EXCEPT !.clientsMade = history.clientsMade + 1]
  /\ UNCHANGED <<docVars, pool, collection, models>>

\* init_vector_store from its await on (lines 41-46)
ResumeInitVectorStore(c) ==
  /\ calls[c].pc = "awaiting"
  /\ calls[c].tool = "init_vector_store"
  /\ \E alive \in BOOLEAN :
       /\ calls' = [calls EXCEPT
            ![c].pc = "done",
            ![c].response = IF alive THEN [success |-> TRUE, message |-> MSG_VS_INITIALIZED]
                            ELSE Failure(MSG_LIBRARY)]
       /\ history' = [history EXCEPT
                        !.initReturnedSuccess = history.initReturnedSuccess \/ alive]
  /\ UNCHANGED <<docVars, pool, client, collection, models>>

\* get_or_create_collection up to its await (lines 77-87): without client the
\* handler returns, else it calls getOrCreateCollection of client
StartGetOrCreateCollection(c) ==
  /\ calls[c].pc = "idle"
  /\ \E p \in CollectionParams :
       calls' = [calls EXCEPT ![c] =
         IF IsSet(client)
         THEN VsCall("get_or_create_collection", p, "awaiting", client,
                     [name |-> p.name, metadata |-> EffectiveMetadata(p)], Failure(<<>>))
         ELSE VsCall("get_or_create_collection", p, "done", Undefined, Undefined,
                     Failure(MSG_VS_NOT_INITIALIZED))]
  /\ history' = StartOf(c)
  /\ UNCHANGED <<docVars, pool, client, collection, models>>

\* get_or_create_collection from its await on (lines 83-96): the collection
\* that came is stored and success returned; a rejection stores nothing
ResumeGetOrCreateCollection(c) ==
  /\ calls[c].pc = "awaiting"
  /\ calls[c].tool = "get_or_create_collection"
  /\ \E answered \in BOOLEAN :
       /\ collection' = IF answered THEN CollectionFrom(calls[c].target, calls[c].request)
                        ELSE collection
       /\ calls' = [calls EXCEPT
            ![c].pc = "done",
            ![c].response =
              IF answered
              THEN [success |-> TRUE, message |-> CollectionReady(calls[c].params.name),
                    collectionName |-> calls[c].params.name]
              ELSE Failure(MSG_LIBRARY)]
       /\ history' = IF answered
                     THEN [history EXCEPT !.own[c] = calls[c].params.name]
                     ELSE history
  /\ UNCHANGED <<docVars, pool, client, models>>

\* add_documents, query_collection and delete_documents up to their await
\* (lines 129-139, 178-188, 216-224): without collection the handler returns,
\* else it sends its request to collection
StartDocuments(c) ==
  /\ calls[c].pc = "idle"
  /\ \E tool \in DocumentTools : \E p \in DocumentParams[tool] :
       calls' = [calls EXCEPT ![c] =
         IF IsSet(collection)
         THEN VsCall(tool, p, "awaiting", collection, CollectionRequest(tool, p),
                     Failure(<<>>))
         ELSE VsCall(tool, p, "done", Undefined, Undefined,
                     Failure(MSG_COLLECTION_NOT_INITIALIZED))]
  /\ history' = StartOf(c)
  /\ UNCHANGED <<docVars, pool, client, collection, models>>

\* a document handler from its await on
ResumeDocuments(c) ==
  /\ calls[c].pc = "awaiting"
  /\ calls[c].tool \in DocumentTools
  /\ \E answered \in BOOLEAN :
       calls' = [calls EXCEPT
         ![c].pc = "done",
         ![c].response = CollectionResponse(calls[c].tool, calls[c].params, answered)]
  /\ UNCHANGED <<docVars, pool, client, collection, models, history>>

\* the caller takes the response of its call
TakeVsResponse(c) ==
  /\ calls[c].pc = "done"
  /\ calls' = [calls EXCEPT ![c] = NoCall]
  /\ history' = [history EXCEPT !.atStart[c] = Undefined]
  /\ UNCHANGED <<docVars, pool, client, collection, models>>

NextVs ==
  \E c \in Callers :
    \/ StartInitVectorStore(c)
    \/ ResumeInitVectorStore(c)
    \/ StartGetOrCreateCollection(c)
    \/ ResumeGetOrCreateCollection(c)
    \/ StartDocuments(c)
    \/ ResumeDocuments(c)
    \/ TakeVsResponse(c)

SpecVs == InitVs /\ [][NextVs]_vars

\* the calls of a tool of the given set that have started
Started(c, tools) == calls[c].pc \in {"awaiting", "done"} /\ calls[c].tool \in tools

\* add_documents, query_collection and delete_documents use a collection
\* obtained from the client stored when they start, and fail with 'Collection
\* not initialized' otherwise
UsesCollectionOfStoredClient(c) ==
  Started(c, DocumentTools) =>
    IF IsSet(calls[c].target)
    THEN /\ IsSet(history.atStart[c].client)
         /\ calls[c].target.client = history.atStart[c].client.serial
    ELSE calls[c].response = Failure(MSG_COLLECTION_NOT_INITIALIZED)

\* get_or_create_collection fails with 'Vector store connection not
\* initialized', calling no client, unless an init_vector_store call has
\* returned success
NeedsSuccessfulInit(c) ==
  (Started(c, {"get_or_create_collection"}) /\ ~history.atStart[c].initialized) =>
    /\ calls[c].pc = "done"
    /\ ~IsSet(calls[c].target)
    /\ calls[c].response = Failure(MSG_VS_NOT_INITIALIZED)

\* C16: the collection that add_documents, query_collection and
\* delete_documents use was obtained from the currently stored client (after
\* init_vector_store replaced the client they fail with 'Collection not
\* initialized' until get_or_create_collection succeeds on the new client),
\* and get_or_create_collection fails with 'Vector store connection not
\* initialized' unless an init_vector_store call has succeeded.
C16_CollectionFollowsClient ==
  \A c \in Callers : UsesCollectionOfStoredClient(c) /\ NeedsSuccessfulInit(c)

\* C17: a caller's add_documents, query_collection or delete_documents call
\* issued after that caller's own get_or_create_collection(name N) returned
\* success operates on collection N, whatever the other callers' calls did.
C17_CallerKeepsItsCollection ==
  \A c \in Callers :
    (Started(c, DocumentTools) /\ history.atStart[c].own # "") =>
      /\ IsSet(calls[c].target)
      /\ calls[c].target.name = history.atStart[c].own
====
